---- MODULE Spec2Model ----
(***************************************************************************)
(* The resolvers of src/src/index.js (a Forge app that scores Jira         *)
(* tickets) as a state machine.  The shared state is the Forge key-value   *)
(* store and the OPENAI_API_KEY environment variable; every invocation of  *)
(* a resolver is a call whose steps are the stretches of code between two  *)
(* awaits on a collaborator (issue fetch, text-generation backend, store). *)
(* Calls in flight interleave at those awaits.                             *)
(*                                                                         *)
(* Numbers are kept in tenths (70 is 7.0), so that Math.round has          *)
(* fractions to round.  Timestamps (updatedAt, evaluatedAt) and the free   *)
(* text of message/details fields are left out of the records.             *)
(***************************************************************************)
EXTENDS Integers, Sequences, FiniteSets, TLC

\* ------------------------------------------------------------------ bounds

\* Invocations that may be in flight at the same time.
MaxInFlight == 2

\* Longest issueKeys array given to getMultipleTicketScores.
MaxBatch == 2

\* ------------------------------------------------------------- JS values

\* A JSON / JavaScript value as the code sees it: t is its type tag, n the
\* number in tenths (t = "num"), s the text (t = "str").
Absent == [t |-> "absent", n |-> 0, s |-> ""]
Null == [t |-> "null", n |-> 0, s |-> ""]
NaN == [t |-> "nan", n |-> 0, s |-> ""]
Num(x) == [t |-> "num", n |-> x, s |-> ""]
Str(x) == [t |-> "str", n |-> 0, s |-> x]

\* JavaScript truthiness: !v is the negation of this.
Truthy(v) ==
    CASE v.t = "num" -> v.n # 0
      [] v.t = "str" -> v.s # ""
      [] OTHER -> FALSE

\* typeof v === 'number' (NaN is a number to typeof).
IsNumber(v) == v.t \in {"num", "nan"}

\* Number(v): what Math.round applies to its argument first.  Of the
\* strings only those written as a decimal integer are modelled as numeric.
NumericStrings == {"7"}
ToNumber(v) ==
    CASE v.t = "num" -> v
      [] v.t = "str" -> IF v.s \in NumericStrings THEN Num(70) ELSE NaN
      [] v.t = "null" -> Num(0)
      [] OTHER -> NaN

\* Math.round: the nearest integer, a tie going up; NaN stays NaN.
MathRound(v) ==
    LET x == ToNumber(v)
    IN IF x.t = "nan" THEN NaN ELSE Num(((x.n + 5) \div 10) * 10)

\* Math.max(a, b) and Math.min(a, b): NaN if either argument is NaN.
MathMax(a, b) ==
    IF a.t = "nan" \/ b.t = "nan" THEN NaN ELSE IF a.n >= b.n THEN a ELSE b
MathMin(a, b) ==
    IF a.t = "nan" \/ b.t = "nan" THEN NaN ELSE IF a.n <= b.n THEN a ELSE b

\* finalScore = Math.min(10, Math.max(1, Math.round(evaluation.score)))
FinalScore(s) == MathMin(Num(100), MathMax(Num(10), MathRound(s)))

\* x || 0
OrZero(v) == IF Truthy(v) THEN v ELSE Num(0)

\* ------------------------------------------------------------ the records

Keys == {"A-1", "A-2"}
Accounts == {"acct-1"}

\* storageKey = `ticket-score:${issueKey}`
StorageKey(issueKey) == "ticket-score:" \o issueKey

\* The four pillars of a breakdown, and the fixed weight labels.
NoBreakdown ==
    [ambiguity |-> Absent, technicalComplexity |-> Absent,
     contextSwitching |-> Absent, technicalDebt |-> Absent]
NoWeights ==
    [ambiguity |-> "", technicalComplexity |-> "",
     contextSwitching |-> "", technicalDebt |-> ""]
Weights ==
    [ambiguity |-> "30%", technicalComplexity |-> "40%",
     contextSwitching |-> "20%", technicalDebt |-> "10%"]

\* metadata: the default {} of a save payload, a caller's {m: 1}, or what an
\* evaluation assembles (every metadata value carries all fields, the ones
\* its object lacks being absent or empty).
EmptyMetadata ==
    [evaluationMethod |-> "", breakdown |-> NoBreakdown, weights |-> NoWeights,
     reason |-> Absent, issueType |-> "", priority |-> "", tokensUsed |-> 0,
     model |-> "", m |-> 0]
CallerMetadata == [EmptyMetadata EXCEPT !.m = 1]

\* scoreData (updatedAt, a timestamp, is left out).
ScoreDataNoMetadata(issueKey, score, metadata, accountId) ==
    [issueKey |-> issueKey, score |-> score, metadata |-> EmptyMetadata,
     updatedBy |-> accountId]
ScoreData(issueKey, score, metadata, accountId) ==
    [issueKey |-> issueKey, score |-> score, metadata |-> metadata,
     updatedBy |-> accountId]
NoScoreData == ScoreData("", Absent, EmptyMetadata, "")

\* The data field of a response: not there, null, or a record.
DataAbsent == [t |-> "absent", rec |-> NoScoreData]
DataNull == [t |-> "null", rec |-> NoScoreData]
DataOf(rec) == [t |-> "rec", rec |-> rec]

\* An empty JS object used as a map from issue key to record.
EmptyMap == [k \in {} |-> NoScoreData]

\* What the parsed JSON of the backend holds (evaluation), or nothing.
NoEvaluation ==
    [present |-> FALSE, score |-> Absent, reason |-> Absent, hasBreakdown |-> FALSE,
     ambiguity |-> Absent, technical_complexity |-> Absent,
     context_switching |-> Absent, technical_debt |-> Absent]

\* What a resolver hands back: a returned value or a fault thrown out of it.
\* A field the returned object lacks is absent, empty or -1 here.
EmptyResponse ==
    [outcome |-> "returned", success |-> "absent", error |-> "", data |-> DataAbsent,
     map |-> EmptyMap, count |-> -1, issueKey |-> "", score |-> Absent,
     reason |-> Absent, breakdown |-> NoBreakdown, weights |-> NoWeights,
     metadata |-> EmptyMetadata, stored |-> FALSE, rawResponse |-> Absent,
     evaluation |-> NoEvaluation, text |-> Absent, labels |-> Absent]
Thrown(message) == [EmptyResponse EXCEPT !.outcome = "thrown", !.error = message]
Failure(message) == [EmptyResponse EXCEPT !.success = "false", !.error = message]
\* return { error: ... } without a success field
ErrorOnly(message) == [EmptyResponse EXCEPT !.error = message]
\* catch (error) { return { error: error.message || fallback, success: false } }
Caught(message, fallback) == Failure(IF message # "" THEN message ELSE fallback)

\* ------------------------------------------------------------- the inputs

\* The payloads of a save: scores in and out of 1..10, whole and not, with
\* and without metadata; then a missing issue key, a missing score, a null
\* score and a score that is text.
SavePayloads ==
    {[key |-> k, score |-> Num(70), meta |-> CallerMetadata] : k \in Keys}
    \cup {[key |-> k, score |-> Num(425), meta |-> EmptyMetadata] : k \in Keys}
    \cup {[key |-> "", score |-> Num(70), meta |-> EmptyMetadata],
          [key |-> "A-1", score |-> Absent, meta |-> CallerMetadata],
          [key |-> "A-1", score |-> Null, meta |-> EmptyMetadata],
          [key |-> "A-2", score |-> Str("high"), meta |-> EmptyMetadata]}

\* issueKeys of a batch read: arrays of at most MaxBatch keys, duplicates
\* included.
RECURSIVE KeyArrays(_)
KeyArrays(n) ==
    IF n = 0 THEN {<<>>}
    ELSE KeyArrays(n - 1) \cup {Append(a, k) : a \in {b \in KeyArrays(n - 1) : Len(b) = n - 1}, k \in Keys}

\* What the issue fetch yields of the fields that reach the record: an issue
\* with a type and a priority, and one with neither.
Issues == {[issuetype |-> "Bug", priority |-> "High"], [issuetype |-> "", priority |-> ""]}

\* evaluation: the object JSON.parse makes of the backend's text.
Evaluation(score, reason, hasBreakdown, a, tc, cs, td) ==
    [present |-> TRUE, score |-> score, reason |-> reason, hasBreakdown |-> hasBreakdown,
     ambiguity |-> a, technical_complexity |-> tc, context_switching |-> cs,
     technical_debt |-> td]

\* A completion of the backend: the text of choices[0].message.content, what
\* the text holds when it is JSON (response_format json_object: an object),
\* and usage.total_tokens (-1: the completion carries no usage).
Completion(raw, json, value, tokens) ==
    [raw |-> raw, json |-> json, value |-> value, tokens |-> tokens]
Scored(raw, score) ==
    Completion(raw, TRUE, Evaluation(score, Str("core refactoring"), TRUE,
                                     Num(30), Num(80), Num(0), Absent), 120)

NoCompletion == Completion("", FALSE, NoEvaluation, 0)

\* The completions an evaluation is run against: text that is no JSON; a
\* well-formed answer; scores out of range, fractional, zero, text; answers
\* lacking reason or breakdown; an empty breakdown; a completion without
\* usage; pillars out of range, fractional, null and empty text.
Completions ==
    {Completion("I cannot evaluate this ticket", FALSE, NoEvaluation, 80),
     Scored("{score: 7, ...}", Num(70)),
     Scored("{score: 12.4, ...}", Num(124)),
     Scored("{score: 0, ...}", Num(0)),
     Scored("{score: 'high', ...}", Str("high")),
     Completion("{score: 4, reason: '', breakdown: {}}", TRUE,
                Evaluation(Num(40), Str(""), TRUE, Absent, Absent, Absent, Absent), 90),
     Completion("{score: 4, reason: 'ui text'}", TRUE,
                Evaluation(Num(40), Str("ui text"), FALSE, Absent, Absent, Absent, Absent), 90),
     Completion("{score: 2.5, reason: 'docs', breakdown: {}}", TRUE,
                Evaluation(Num(25), Str("docs"), TRUE, Absent, Absent, Absent, Absent), -1),
     Completion("{score: 6, reason: 'legacy module', breakdown: {15, 2.5, null, ''}}", TRUE,
                Evaluation(Num(60), Str("legacy module"), TRUE,
                           Num(150), Num(25), Null, Str("")), 100)}

\* The message of the TypeError a malformed request raises (req.payload or
\* req.context.extension.issue undefined).
TypeErrorMessage == "TypeError: cannot read properties of undefined"

\* How an awaited collaborator ends: it answers, or it rejects with an error
\* whose message may be empty.
Outcomes(message) ==
    {[ok |-> TRUE, message |-> ""], [ok |-> FALSE, message |-> message],
     [ok |-> FALSE, message |-> ""]}
StoreOutcomes == Outcomes("store failed")
FetchOutcomes == Outcomes("issue fetch failed")
BackendOutcomes == Outcomes("backend failed")

\* -------------------------------------------------------------- the state

VARIABLES
    store,     \* Forge storage: storage key -> scoreData, for the keys that are set
    apiKey,    \* process.env.OPENAI_API_KEY ("" when not configured)
    calls,     \* the invocations in flight: slot -> the resolver's position and locals
    history    \* per issue key, the last operation the store carried out on it

vars == <<store, apiKey, calls, history>>

Slots == 1..MaxInFlight

\* storage.set, storage.delete and storage.get
StorageSetMerging(st, storageKey, value) ==
    [x \in DOMAIN st \cup {storageKey} |->
        IF x # storageKey THEN st[x]
        ELSE IF x \in DOMAIN st THEN [value EXCEPT !.metadata = st[x].metadata]
        ELSE value]
StorageSet(st, storageKey, value) ==
    [x \in DOMAIN st \cup {storageKey} |-> IF x = storageKey THEN value ELSE st[x]]
StorageDeleteOtherKey(st, storageKey) == st
StorageDelete(st, storageKey) == [x \in DOMAIN st \ {storageKey} |-> st[x]]
StorageGet(st, storageKey) ==
    IF storageKey \in DOMAIN st THEN DataOf(st[storageKey]) ELSE DataAbsent

\* The last operation on a key: op is "none", "save" (a manual save, with the
\* score and metadata of its payload), "evaluate" or "delete".
EmptyStore == [x \in {} |-> NoScoreData]

NoHistory == [op |-> "none", score |-> Absent, metadata |-> EmptyMetadata]

\* A slot with no invocation in it.  h is the resolver, pc where it waits:
\* "fetch" (requestJira), "backend" (chat.completions.create), "set", "get",
\* "delete", "reads" (the storage reads of a batch), "done" (resp is handed
\* back).  key, acct, score, meta, isArray, keys come from the request; issue,
\* completion, evaluation, staged (scoreData), pending and scores are locals;
\* settled counts the storage reads of a batch that have come back;
\* nFetch, nBackend, nSet count the calls made to each collaborator; failed
\* names what raised an error in this invocation ("request", "fetch",
\* "backend" or "store"); storeAtStart is what the store held when the
\* resolver was invoked, and raced records that another invocation changed
\* the store since (storeAtStart is dropped then).
IdleCall ==
    [h |-> "", pc |-> "idle", key |-> "", acct |-> "", score |-> Absent,
     meta |-> EmptyMetadata, isArray |-> FALSE, keys |-> <<>>, issueType |-> "", priority |-> "",
     evaluation |-> NoEvaluation, staged |-> NoScoreData, pending |-> {},
     scores |-> EmptyMap, settled |-> 0, nFetch |-> 0, nBackend |-> 0, nSet |-> 0,
     completion |-> NoCompletion, failed |-> "", raced |-> FALSE,
     storeAtStart |-> EmptyStore, resp |-> EmptyResponse]

\* The invocation of resolver h as it starts.
Begin(h) == [IdleCall EXCEPT !.h = h, !.storeAtStart = store]

\* The resolver returns (or throws) resp: its locals are gone, the request
\* and the counts are kept for the record.
Finish(call, resp) ==
    [call EXCEPT !.pc = "done", !.resp = resp, !.staged = NoScoreData,
                 !.pending = {}, !.scores = EmptyMap, !.issueType = "",
                 !.priority = ""]

\* An error raised by source lands in the resolver's catch block.
Fault(call, source, message, fallback) ==
    Finish([call EXCEPT !.failed = source], Caught(message, fallback))

\* A response that is ready is handed back before any other invocation takes
\* a step (handing it back commutes with those steps), and a new invocation
\* takes the lowest free slot (the slots are interchangeable).
Quiet == \A c \in Slots : calls[c].pc # "done"
Free(c) ==
    /\ Quiet
    /\ calls[c].pc = "idle"
    /\ \A d \in Slots : d < c => calls[d].pc # "idle"
Waiting(c, h, pc) ==
    /\ Quiet
    /\ calls[c].h = h
    /\ calls[c].pc = pc

\* A write or delete of one invocation reaches the store while others are
\* under way: for those the store is no longer what they started from.
Raced(cs) ==
    [c \in Slots |->
        IF cs[c].pc \in {"idle", "done"} THEN cs[c]
        ELSE [cs[c] EXCEPT !.raced = TRUE, !.storeAtStart = EmptyStore]]

Init ==
    /\ store = EmptyStore
    /\ apiKey \in {"", "sk-test"}
    /\ calls = [c \in Slots |-> IdleCall]
    /\ history = [k \in Keys |-> NoHistory]

\* ------------------------------------------------------ score access layer

\* Lines 175-195 (and 396-416): validate the payload, then stage scoreData.
ValidateSaveNoTypeCheck(call, keyError) ==
    IF ~(call.key # "") THEN Finish(call, Failure(keyError))
    ELSE IF call.score.t \in {"absent", "null"} THEN Finish(call, Failure("Score is required"))
    ELSE [call EXCEPT !.pc = "set",
                      !.staged = ScoreData(call.key, call.score, call.meta, call.acct)]
ValidateSave(call, keyError) ==
    IF ~(call.key # "") THEN Finish(call, Failure(keyError))
    ELSE IF call.score.t \in {"absent", "null"} THEN Finish(call, Failure("Score is required"))
    ELSE IF ~IsNumber(call.score) THEN Finish(call, Failure("Score must be a number"))
    ELSE [call EXCEPT !.pc = "set",
                      !.staged = ScoreData(call.key, call.score, call.meta, call.acct)]

\* The requests a save can be invoked with; a malformed one has no payload.
SaveRequests(h) ==
    {[Begin(h) EXCEPT !.key = p.key, !.score = p.score, !.meta = p.meta,
                      !.acct = a] : p \in SavePayloads, a \in Accounts}

\* saveTicketScore up to its await of storage.set
SaveTicketScore(c) ==
    /\ Free(c)
    /\ \/ \E req \in SaveRequests("saveTicketScore") :
            calls' = [calls EXCEPT ![c] = ValidateSave(req, "Issue key is required")]
       \/ calls' = [calls EXCEPT ![c] =
              Fault(Begin("saveTicketScore"), "request",
                     TypeErrorMessage, "Failed to save ticket score")]
    /\ UNCHANGED <<store, apiKey, history>>

\* saveCurrentIssueScore up to its await of storage.set
SaveCurrentIssueScore(c) ==
    /\ Free(c)
    /\ \/ \E req \in SaveRequests("saveCurrentIssueScore") :
            calls' = [calls EXCEPT ![c] = ValidateSave(req, "Issue context not found")]
       \/ calls' = [calls EXCEPT ![c] =
              Fault(Begin("saveCurrentIssueScore"), "request",
                     TypeErrorMessage, "Failed to save current issue score")]
    /\ UNCHANGED <<store, apiKey, history>>

\* What a save returns once storage.set has answered.
SaveResponse(call) ==
    [EmptyResponse EXCEPT !.success = "true", !.data = DataOf(call.staged),
        !.issueKey = IF call.h = "saveCurrentIssueScore" THEN call.key ELSE ""]

\* await storage.set(storageKey, scoreData) of either save, and the return
SaveStored(c, fallback) ==
    /\ \E o \in StoreOutcomes :
        LET call == [calls[c] EXCEPT !.nSet = @ + 1]
        IN IF o.ok
           THEN /\ store' = StorageSet(store, StorageKey(call.key), call.staged)
                /\ history' = [history EXCEPT ![call.key] =
                        [op |-> "save", score |-> call.score, metadata |-> call.meta]]
                /\ calls' = [Raced(calls) EXCEPT ![c] = Finish(call, SaveResponse(call))]
           ELSE /\ calls' = [calls EXCEPT ![c] = Fault(call, "store", o.message, fallback)]
                /\ UNCHANGED <<store, history>>
    /\ UNCHANGED apiKey

SaveTicketScoreStored(c) ==
    /\ Waiting(c, "saveTicketScore", "set")
    /\ SaveStored(c, "Failed to save ticket score")

SaveCurrentIssueScoreStored(c) ==
    /\ Waiting(c, "saveCurrentIssueScore", "set")
    /\ SaveStored(c, "Failed to save current issue score")

\* getTicketScore and getCurrentIssueScore up to their await of storage.get
GetStart(c, h, keyError, fallback) ==
    /\ \/ \E k \in Keys \cup {""} :
            LET call == [Begin(h) EXCEPT !.key = k]
            IN calls' = [calls EXCEPT ![c] =
                   IF ~(k # "") THEN Finish(call, Failure(keyError))
                   ELSE [call EXCEPT !.pc = "get"]]
       \/ calls' = [calls EXCEPT ![c] =
              Fault(Begin(h), "request", TypeErrorMessage, fallback)]
    /\ UNCHANGED <<store, apiKey, history>>

GetTicketScore(c) ==
    /\ Free(c)
    /\ GetStart(c, "getTicketScore", "Issue key is required", "Failed to get ticket score")

GetCurrentIssueScore(c) ==
    /\ Free(c)
    /\ GetStart(c, "getCurrentIssueScore", "Issue context not found",
                "Failed to get current issue score")

\* Lines 237-251 (and 358-374): what a get returns for what storage.get gave.
GetResponseAbsentIsError(call, scoreData) ==
    IF scoreData.t # "rec" THEN Failure("No score found")
    ELSE [EmptyResponse EXCEPT !.success = "true", !.data = scoreData,
             !.issueKey = IF call.h = "getCurrentIssueScore" THEN call.key ELSE ""]
GetResponse(call, scoreData) ==
    [EmptyResponse EXCEPT !.success = "true",
        !.data = IF scoreData.t # "rec" THEN DataNull ELSE scoreData,
        !.issueKey = IF call.h = "getCurrentIssueScore" THEN call.key ELSE ""]

\* await storage.get(storageKey) of either get, and the return
GetRead(c, fallback) ==
    /\ \E o \in StoreOutcomes :
        calls' = [calls EXCEPT ![c] =
            IF o.ok
            THEN Finish(calls[c], GetResponse(calls[c], StorageGet(store, StorageKey(calls[c].key))))
            ELSE Fault(calls[c], "store", o.message, fallback)]
    /\ UNCHANGED <<store, apiKey, history>>

GetTicketScoreRead(c) ==
    /\ Waiting(c, "getTicketScore", "get")
    /\ GetRead(c, "Failed to get ticket score")

GetCurrentIssueScoreRead(c) ==
    /\ Waiting(c, "getCurrentIssueScore", "get")
    /\ GetRead(c, "Failed to get current issue score")

\* deleteTicketScore up to its await of storage.delete
DeleteTicketScore(c) ==
    /\ Free(c)
    /\ \/ \E k \in Keys \cup {""} :
            LET call == [Begin("deleteTicketScore") EXCEPT !.key = k]
            IN calls' = [calls EXCEPT ![c] =
                   IF ~(k # "") THEN Finish(call, Failure("Issue key is required"))
                   ELSE [call EXCEPT !.pc = "delete"]]
       \/ calls' = [calls EXCEPT ![c] =
              Fault(Begin("deleteTicketScore"), "request",
                     TypeErrorMessage, "Failed to delete ticket score")]
    /\ UNCHANGED <<store, apiKey, history>>

\* await storage.delete(storageKey), and the return
DeleteTicketScoreDeleted(c) ==
    /\ Waiting(c, "deleteTicketScore", "delete")
    /\ \E o \in StoreOutcomes :
        IF o.ok
        THEN /\ store' = StorageDelete(store, StorageKey(calls[c].key))
             /\ history' = [history EXCEPT ![calls[c].key] = [NoHistory EXCEPT !.op = "delete"]]
             /\ calls' = [Raced(calls) EXCEPT ![c] =
                    Finish(calls[c], [EmptyResponse EXCEPT !.success = "true"])]
        ELSE /\ calls' = [calls EXCEPT ![c] =
                    Fault(calls[c], "store", o.message, "Failed to delete ticket score")]
             /\ UNCHANGED <<store, history>>
    /\ UNCHANGED apiKey

\* getMultipleTicketScores up to await Promise.all(promises): issueKeys.map
\* has called storage.get once for every element of the array.
GetMultipleTicketScores(c) ==
    /\ Free(c)
    /\ \/ \E keys \in KeyArrays(MaxBatch) :
            calls' = [calls EXCEPT ![c] =
                [Begin("getMultipleTicketScores") EXCEPT !.isArray = TRUE,
                                 !.keys = keys, !.pc = "reads",
                                 !.pending = 1..Len(keys)]]
       \/ \* issueKeys is missing, or is no array
          calls' = [calls EXCEPT ![c] =
              Finish(Begin("getMultipleTicketScores"),
                     Failure("Issue keys array is required"))]
       \/ calls' = [calls EXCEPT ![c] =
              Fault(Begin("getMultipleTicketScores"), "request",
                     TypeErrorMessage, "Failed to get ticket scores")]
    /\ UNCHANGED <<store, apiKey, history>>

\* if (scoreData) { scores[issueKey] = scoreData; }
CollectAlways(scores, issueKey, scoreData) ==
    [k \in DOMAIN scores \cup {issueKey} |->
        IF k = issueKey THEN scoreData.rec ELSE scores[k]]
Collect(scores, issueKey, scoreData) ==
    IF scoreData.t = "rec"
    THEN [k \in DOMAIN scores \cup {issueKey} |->
             IF k = issueKey THEN scoreData.rec ELSE scores[k]]
    ELSE scores

\* One of the storage.get promises settles, in any order.  A rejection
\* rejects Promise.all at once and the catch block returns.
GetMultipleTicketScoresReadSkipping(c) ==
    /\ Waiting(c, "getMultipleTicketScores", "reads")
    /\ \E i \in calls[c].pending, o \in StoreOutcomes :
        LET call == [calls[c] EXCEPT !.settled = @ + 1]
            issueKey == call.keys[i]
        IN calls' = [calls EXCEPT ![c] =
               IF o.ok
               THEN [call EXCEPT !.pending = @ \ {i},
                        !.scores = Collect(@, issueKey, StorageGet(store, StorageKey(issueKey)))]
               ELSE [call EXCEPT !.pending = @ \ {i}]]
    /\ UNCHANGED <<store, apiKey, history>>
GetMultipleTicketScoresRead(c) ==
    /\ Waiting(c, "getMultipleTicketScores", "reads")
    /\ \E i \in calls[c].pending, o \in StoreOutcomes :
        LET call == [calls[c] EXCEPT !.settled = @ + 1]
            issueKey == call.keys[i]
        IN calls' = [calls EXCEPT ![c] =
               IF o.ok
               THEN [call EXCEPT !.pending = @ \ {i},
                        !.scores = Collect(@, issueKey, StorageGet(store, StorageKey(issueKey)))]
               ELSE Fault(call, "store", o.message, "Failed to get ticket scores")]
    /\ UNCHANGED <<store, apiKey, history>>

\* Lines 287-295: every promise has resolved; count the map and return it.
BatchResponse(scores) ==
    [EmptyResponse EXCEPT !.success = "true", !.map = scores,
                          !.count = Cardinality(DOMAIN scores)]

GetMultipleTicketScoresJoined(c) ==
    /\ Waiting(c, "getMultipleTicketScores", "reads")
    /\ calls[c].pending = {}
    /\ calls' = [calls EXCEPT ![c] = Finish(calls[c], BatchResponse(calls[c].scores))]
    /\ UNCHANGED <<store, apiKey, history>>

\* ------------------------------------------------------- evaluation engine

\* JSON.parse(aiResponse): the object the text holds, or a SyntaxError
\* (ok is FALSE) when the text is no JSON.
JSONParseLenient(completion) == [ok |-> TRUE, value |-> completion.value]
JSONParse(completion) ==
    IF completion.json THEN [ok |-> TRUE, value |-> completion.value]
    ELSE [ok |-> FALSE, value |-> NoEvaluation]

\* !evaluation.score || !evaluation.reason || !evaluation.breakdown
InvalidStructureNoBreakdown(evaluation) ==
    ~Truthy(evaluation.score) \/ ~Truthy(evaluation.reason)
InvalidStructure(evaluation) ==
    ~Truthy(evaluation.score) \/ ~Truthy(evaluation.reason) \/ ~evaluation.hasBreakdown

\* Lines 586-591 (and 627-632, 788-793, 829-834)
BreakdownClamped(evaluation) ==
    [ambiguity |-> FinalScore(evaluation.ambiguity),
     technicalComplexity |-> FinalScore(evaluation.technical_complexity),
     contextSwitching |-> FinalScore(evaluation.context_switching),
     technicalDebt |-> FinalScore(evaluation.technical_debt)]
Breakdown(evaluation) ==
    [ambiguity |-> OrZero(evaluation.ambiguity),
     technicalComplexity |-> OrZero(evaluation.technical_complexity),
     contextSwitching |-> OrZero(evaluation.context_switching),
     technicalDebt |-> OrZero(evaluation.technical_debt)]

\* Lines 584-604 (and 786-806); evaluatedAt, a timestamp, is left out.
Metadata(evaluation, issueType, priority, tokens) ==
    [evaluationMethod |-> "ai-4-pillars", breakdown |-> Breakdown(evaluation),
     weights |-> Weights, reason |-> evaluation.reason, issueType |-> issueType,
     priority |-> priority, tokensUsed |-> tokens, model |-> "gpt-4o-mini", m |-> 0]

\* Lines 622-642 (and 824-844)
EvaluationResponse(call) ==
    [EmptyResponse EXCEPT !.success = "true", !.issueKey = call.key,
        !.score = call.staged.score, !.reason = call.evaluation.reason,
        !.breakdown = Breakdown(call.evaluation), !.weights = Weights,
        !.metadata = call.staged.metadata, !.stored = TRUE]

\* Lines 557-615 of evaluateTicketLoad: parse, validate, normalize and stage.
EvaluateTicketLoadParsed(call, completion) ==
    LET parsed == JSONParse(completion)
        evaluation == parsed.value
        finalScore == FinalScore(evaluation.score)
        metadata == Metadata(evaluation, call.issueType, call.priority, completion.tokens)
    IN IF ~parsed.ok
       THEN Finish(call, [Failure("Failed to parse AI evaluation response")
                             EXCEPT !.rawResponse = Str(completion.raw)])
       ELSE IF InvalidStructure(evaluation)
       THEN Finish(call, [Failure("Invalid evaluation structure from AI")
                             EXCEPT !.evaluation = evaluation])
       ELSE IF completion.tokens < 0
       THEN Fault(call, "backend", TypeErrorMessage, "Failed to evaluate ticket load")
       ELSE [call EXCEPT !.pc = "set", !.evaluation = evaluation,
                         !.staged = ScoreData(call.key, finalScore, metadata, call.acct)]

\* Lines 759-817 of evaluateTicketByKey: the same steps, written out again.
EvaluateTicketByKeyParsedUnclamped(call, completion) ==
    LET parsed == JSONParse(completion)
        evaluation == parsed.value
        metadata == Metadata(evaluation, call.issueType, call.priority, completion.tokens)
    IN IF ~parsed.ok
       THEN Finish(call, [Failure("Failed to parse AI evaluation response")
                             EXCEPT !.rawResponse = Str(completion.raw)])
       ELSE IF InvalidStructure(evaluation)
       THEN Finish(call, [Failure("Invalid evaluation structure from AI")
                             EXCEPT !.evaluation = evaluation])
       ELSE IF completion.tokens < 0
       THEN Fault(call, "backend", TypeErrorMessage, "Failed to evaluate ticket load")
       ELSE [call EXCEPT !.pc = "set", !.evaluation = evaluation,
                         !.staged = ScoreData(call.key, MathRound(evaluation.score), metadata,
                                              call.acct)]
EvaluateTicketByKeyParsed(call, completion) ==
    LET parsed == JSONParse(completion)
        evaluation == parsed.value
        finalScore == FinalScore(evaluation.score)
        metadata == Metadata(evaluation, call.issueType, call.priority, completion.tokens)
    IN IF ~parsed.ok
       THEN Finish(call, [Failure("Failed to parse AI evaluation response")
                             EXCEPT !.rawResponse = Str(completion.raw)])
       ELSE IF InvalidStructure(evaluation)
       THEN Finish(call, [Failure("Invalid evaluation structure from AI")
                             EXCEPT !.evaluation = evaluation])
       ELSE IF completion.tokens < 0
       THEN Fault(call, "backend", TypeErrorMessage, "Failed to evaluate ticket load")
       ELSE [call EXCEPT !.pc = "set", !.evaluation = evaluation,
                         !.staged = ScoreData(call.key, finalScore, metadata, call.acct)]

\* Lines 461-465 (and 663-667): the issue key is read from the request and
\* checked.
EvaluateRequest(h, k, a, keyError) ==
    LET call == [Begin(h) EXCEPT !.key = k, !.acct = a]
    IN IF ~(k # "") THEN Finish(call, Failure(keyError))
       ELSE [call EXCEPT !.pc = "fetch"]

\* Either evaluation up to its await of requestJira.
EvaluateStart(c, h, keyError) ==
    /\ \/ \E k \in Keys \cup {""}, a \in Accounts :
            calls' = [calls EXCEPT ![c] = EvaluateRequest(h, k, a, keyError)]
       \/ calls' = [calls EXCEPT ![c] =
              Fault(Begin(h), "request",
                     TypeErrorMessage, "Failed to evaluate ticket load")]
    /\ UNCHANGED <<store, apiKey, history>>

EvaluateTicketLoad(c) ==
    /\ Free(c)
    /\ EvaluateStart(c, "evaluateTicketLoad", "Issue context not found")

EvaluateTicketByKey(c) ==
    /\ Free(c)
    /\ EvaluateStart(c, "evaluateTicketByKey", "Issue key is required")

\* Lines 470-491 (and 672-693): the issue arrives, its fields are read with
\* their defaults, then the API key is looked up.
EvaluateFetchedCallsBackend(call, o, issue) ==
    IF ~o.ok THEN Fault(call, "fetch", o.message, "Failed to evaluate ticket load")
    ELSE [call EXCEPT !.pc = "backend",
             !.issueType = IF issue.issuetype # "" THEN issue.issuetype ELSE "Unknown",
             !.priority = IF issue.priority # "" THEN issue.priority ELSE "Not set"]
EvaluateFetched(call, o, issue) ==
    IF ~o.ok THEN Fault(call, "fetch", o.message, "Failed to evaluate ticket load")
    ELSE IF ~(apiKey # "") THEN Finish(call, Failure("API key not configured"))
    ELSE [call EXCEPT !.pc = "backend",
             !.issueType = IF issue.issuetype # "" THEN issue.issuetype ELSE "Unknown",
             !.priority = IF issue.priority # "" THEN issue.priority ELSE "Not set"]

EvaluateTicketLoadFetched(c) ==
    /\ Waiting(c, "evaluateTicketLoad", "fetch")
    /\ \E o \in FetchOutcomes, issue \in Issues :
        calls' = [calls EXCEPT ![c] =
            EvaluateFetched([calls[c] EXCEPT !.nFetch = @ + 1], o, issue)]
    /\ UNCHANGED <<store, apiKey, history>>

EvaluateTicketByKeyFetched(c) ==
    /\ Waiting(c, "evaluateTicketByKey", "fetch")
    /\ \E o \in FetchOutcomes, issue \in Issues :
        calls' = [calls EXCEPT ![c] =
            EvaluateFetched([calls[c] EXCEPT !.nFetch = @ + 1], o, issue)]
    /\ UNCHANGED <<store, apiKey, history>>

\* await openai.chat.completions.create(...) of evaluateTicketLoad, and the
\* code up to the await of storage.set
EvaluateTicketLoadCompletedRetrying(c) ==
    /\ Waiting(c, "evaluateTicketLoad", "backend")
    /\ \E o \in BackendOutcomes, completion \in Completions :
        LET call == [calls[c] EXCEPT !.nBackend = @ + 1,
                        !.completion = IF o.ok THEN completion ELSE NoCompletion]
        IN calls' = [calls EXCEPT ![c] =
               IF o.ok THEN EvaluateTicketLoadParsed(call, completion)
               ELSE IF call.nBackend < 2 THEN call
               ELSE Fault(call, "backend", o.message, "Failed to evaluate ticket load")]
    /\ UNCHANGED <<store, apiKey, history>>
EvaluateTicketLoadCompleted(c) ==
    /\ Waiting(c, "evaluateTicketLoad", "backend")
    /\ \E o \in BackendOutcomes, completion \in Completions :
        LET call == [calls[c] EXCEPT !.nBackend = @ + 1,
                        !.completion = IF o.ok THEN completion ELSE NoCompletion]
        IN calls' = [calls EXCEPT ![c] =
               IF o.ok THEN EvaluateTicketLoadParsed(call, completion)
               ELSE Fault(call, "backend", o.message, "Failed to evaluate ticket load")]
    /\ UNCHANGED <<store, apiKey, history>>

EvaluateTicketByKeyCompleted(c) ==
    /\ Waiting(c, "evaluateTicketByKey", "backend")
    /\ \E o \in BackendOutcomes, completion \in Completions :
        LET call == [calls[c] EXCEPT !.nBackend = @ + 1,
                        !.completion = IF o.ok THEN completion ELSE NoCompletion]
        IN calls' = [calls EXCEPT ![c] =
               IF o.ok THEN EvaluateTicketByKeyParsed(call, completion)
               ELSE Fault(call, "backend", o.message, "Failed to evaluate ticket load")]
    /\ UNCHANGED <<store, apiKey, history>>

\* await storage.set(storageKey, scoreData) of an evaluation, and the return
EvaluateStoredWritesOnFailure(c) ==
    /\ \E o \in StoreOutcomes :
        LET call == [calls[c] EXCEPT !.nSet = @ + 1]
        IN /\ store' = StorageSet(store, StorageKey(call.key), call.staged)
           /\ history' = [history EXCEPT ![call.key] = [NoHistory EXCEPT !.op = "evaluate"]]
           /\ calls' = [Raced(calls) EXCEPT ![c] =
                  IF o.ok THEN Finish(call, EvaluationResponse(call))
                  ELSE Fault(call, "store", o.message, "Failed to evaluate ticket load")]
    /\ UNCHANGED apiKey
EvaluateStored(c) ==
    /\ \E o \in StoreOutcomes :
        LET call == [calls[c] EXCEPT !.nSet = @ + 1]
        IN IF o.ok
           THEN /\ store' = StorageSet(store, StorageKey(call.key), call.staged)
                /\ history' = [history EXCEPT ![call.key] = [NoHistory EXCEPT !.op = "evaluate"]]
                /\ calls' = [Raced(calls) EXCEPT ![c] = Finish(call, EvaluationResponse(call))]
           ELSE /\ calls' = [calls EXCEPT ![c] =
                       Fault(call, "store", o.message, "Failed to evaluate ticket load")]
                /\ UNCHANGED <<store, history>>
    /\ UNCHANGED apiKey

EvaluateTicketLoadStored(c) ==
    /\ Waiting(c, "evaluateTicketLoad", "set")
    /\ EvaluateStored(c)

EvaluateTicketByKeyStored(c) ==
    /\ Waiting(c, "evaluateTicketByKey", "set")
    /\ EvaluateStored(c)

\* ------------------------------------------------- the other AI resolvers

\* fetchLabels up to its await of requestJira; it has no try block, so the
\* TypeError of a request without issue context leaves the resolver.
FetchLabels(c) ==
    /\ Free(c)
    /\ \/ \E k \in Keys :
            calls' = [calls EXCEPT ![c] =
                [Begin("fetchLabels") EXCEPT !.key = k, !.pc = "fetch"]]
       \/ calls' = [calls EXCEPT ![c] =
              Finish([Begin("fetchLabels") EXCEPT !.failed = "request"],
                     Thrown(TypeErrorMessage))]
    /\ UNCHANGED <<store, apiKey, history>>

\* Lines 15-25: a failed fetch (or an answer without fields) throws; labels
\* undefined gives [], else the labels are returned as they are.
FetchLabelsFetched(c) ==
    /\ Waiting(c, "fetchLabels", "fetch")
    /\ \E o \in FetchOutcomes, labels \in {Absent, Str("[bug, ui]")} :
        LET call == [calls[c] EXCEPT !.nFetch = @ + 1]
        IN calls' = [calls EXCEPT ![c] =
               IF ~o.ok THEN Finish([call EXCEPT !.failed = "fetch"], Thrown(o.message))
               ELSE Finish(call, [EmptyResponse EXCEPT !.labels =
                        IF labels = Absent THEN Str("[]") ELSE labels])]
    /\ UNCHANGED <<store, apiKey, history>>

\* callOpenAI up to its await of chat.completions.create: the API key is
\* looked up before the payload is read.
CallOpenAI(c) ==
    /\ Free(c)
    /\ \E wellFormed \in BOOLEAN, prompt \in {"", "Summarise"} :
        LET call == Begin("callOpenAI")
        IN calls' = [calls EXCEPT ![c] =
               IF ~(apiKey # "") THEN Finish(call, ErrorOnly("API key not configured"))
               ELSE IF ~wellFormed
               THEN Fault(call, "request", TypeErrorMessage, "Failed to call OpenAI API")
               ELSE IF ~(prompt # "") THEN Finish(call, ErrorOnly("Prompt is required"))
               ELSE [call EXCEPT !.pc = "backend"]]
    /\ UNCHANGED <<store, apiKey, history>>

CallOpenAICompleted(c) ==
    /\ Waiting(c, "callOpenAI", "backend")
    /\ \E o \in BackendOutcomes :
        LET call == [calls[c] EXCEPT !.nBackend = @ + 1]
        IN calls' = [calls EXCEPT ![c] =
               IF o.ok
               THEN Finish(call, [EmptyResponse EXCEPT !.success = "true",
                                                       !.text = Str("a completion")])
               ELSE Fault(call, "backend", o.message, "Failed to call OpenAI API")]
    /\ UNCHANGED <<store, apiKey, history>>

\* analyzeIssueWithAI up to its await of requestJira
AnalyzeIssueWithAI(c) ==
    /\ Free(c)
    /\ \/ \E k \in Keys :
            calls' = [calls EXCEPT ![c] =
                [Begin("analyzeIssueWithAI") EXCEPT !.key = k, !.pc = "fetch"]]
       \/ calls' = [calls EXCEPT ![c] =
              Fault(Begin("analyzeIssueWithAI"), "request",
                     TypeErrorMessage, "Failed to analyze issue")]
    /\ UNCHANGED <<store, apiKey, history>>

\* Lines 97-123: the issue arrives, the prompt is built, then the API key
\* is looked up.
AnalyzeIssueWithAIFetched(c) ==
    /\ Waiting(c, "analyzeIssueWithAI", "fetch")
    /\ \E o \in FetchOutcomes :
        LET call == [calls[c] EXCEPT !.nFetch = @ + 1]
        IN calls' = [calls EXCEPT ![c] =
               IF ~o.ok THEN Fault(call, "fetch", o.message, "Failed to analyze issue")
               ELSE IF ~(apiKey # "") THEN Finish(call, ErrorOnly("API key not configured"))
               ELSE [call EXCEPT !.pc = "backend"]]
    /\ UNCHANGED <<store, apiKey, history>>

AnalyzeIssueWithAICompleted(c) ==
    /\ Waiting(c, "analyzeIssueWithAI", "backend")
    /\ \E o \in BackendOutcomes :
        LET call == [calls[c] EXCEPT !.nBackend = @ + 1]
        IN calls' = [calls EXCEPT ![c] =
               IF o.ok
               THEN Finish(call, [EmptyResponse EXCEPT !.success = "true",
                        !.issueKey = call.key, !.text = Str("an analysis")])
               ELSE Fault(call, "backend", o.message, "Failed to analyze issue")]
    /\ UNCHANGED <<store, apiKey, history>>

\* The response is delivered; the slot is free for the next invocation.
Return(c) ==
    /\ calls[c].pc = "done"
    /\ calls' = [calls EXCEPT ![c] = IdleCall]
    /\ UNCHANGED <<store, apiKey, history>>

\* One step of the invocation in slot c.
Step(c) ==
    \/ SaveTicketScore(c)
    \/ SaveTicketScoreStored(c)
    \/ SaveCurrentIssueScore(c)
    \/ SaveCurrentIssueScoreStored(c)
    \/ GetTicketScore(c)
    \/ GetTicketScoreRead(c)
    \/ GetCurrentIssueScore(c)
    \/ GetCurrentIssueScoreRead(c)
    \/ GetMultipleTicketScores(c)
    \/ GetMultipleTicketScoresRead(c)
    \/ GetMultipleTicketScoresJoined(c)
    \/ DeleteTicketScore(c)
    \/ DeleteTicketScoreDeleted(c)
    \/ EvaluateTicketLoad(c)
    \/ EvaluateTicketLoadFetched(c)
    \/ EvaluateTicketLoadCompleted(c)
    \/ EvaluateTicketLoadStored(c)
    \/ EvaluateTicketByKey(c)
    \/ EvaluateTicketByKeyFetched(c)
    \/ EvaluateTicketByKeyCompleted(c)
    \/ EvaluateTicketByKeyStored(c)
    \/ FetchLabels(c)
    \/ FetchLabelsFetched(c)
    \/ CallOpenAI(c)
    \/ CallOpenAICompleted(c)
    \/ AnalyzeIssueWithAI(c)
    \/ AnalyzeIssueWithAIFetched(c)
    \/ AnalyzeIssueWithAICompleted(c)
    \/ Return(c)

\* The resolvers are invoked one at a time: an invocation runs to its
\* response before the next one starts.
Next == Step(1)

Spec == Init /\ [][Next]_vars

\* The batch read next to the resolvers that write, invocations overlapping:
\* any of them may take its next step whenever it is not waiting for another.
NextBatch ==
    \E c \in Slots :
        \/ GetMultipleTicketScores(c)
        \/ GetMultipleTicketScoresRead(c)
        \/ GetMultipleTicketScoresJoined(c)
        \/ SaveTicketScore(c)
        \/ SaveTicketScoreStored(c)
        \/ DeleteTicketScore(c)
        \/ DeleteTicketScoreDeleted(c)
        \/ Return(c)

\* None of these resolvers reads the API key.
InitBatch == Init /\ apiKey = "sk-test"

SpecBatch == InitBatch /\ [][NextBatch]_vars

\* The resolvers that write a record, invocations overlapping and all of them
\* for the one issue RacedIssue (writes under different keys do not meet).
RacedIssue == "A-1"
SameIssue(c) == calls[c].key \in {"", RacedIssue}

NextWrites ==
    \E c \in Slots :
        \/ SaveTicketScore(c) /\ SameIssue(c)'
        \/ SaveTicketScoreStored(c)
        \/ SaveCurrentIssueScore(c) /\ SameIssue(c)'
        \/ SaveCurrentIssueScoreStored(c)
        \/ EvaluateTicketLoad(c) /\ SameIssue(c)'
        \/ EvaluateTicketLoadFetched(c)
        \/ EvaluateTicketLoadCompleted(c)
        \/ EvaluateTicketLoadStored(c)
        \/ EvaluateTicketByKey(c) /\ SameIssue(c)'
        \/ EvaluateTicketByKeyFetched(c)
        \/ EvaluateTicketByKeyCompleted(c)
        \/ EvaluateTicketByKeyStored(c)
        \/ Return(c)

\* The evaluations go as far as the store only with an API key.
InitWrites == Init /\ apiKey # ""

SpecWrites == InitWrites /\ [][NextWrites]_vars

\* evaluateTicketLoad (slot 1) in the context of an issue and
\* evaluateTicketByKey (slot 2) with the key of that issue, side by side:
\* each collaborator gives both the same answer, and their writes reach the
\* store one after the other.
PairInvoked ==
    /\ calls[1].pc = "idle" /\ calls[2].pc = "idle"
    /\ \E k \in Keys, a \in Accounts :
        calls' = [calls EXCEPT
            ![1] = EvaluateRequest("evaluateTicketLoad", k, a, "Issue context not found"),
            ![2] = EvaluateRequest("evaluateTicketByKey", k, a, "Issue key is required")]
    /\ UNCHANGED <<store, apiKey, history>>

PairFetched ==
    /\ calls[1].pc = "fetch" /\ calls[2].pc = "fetch"
    /\ \E o \in FetchOutcomes, issue \in Issues :
        calls' = [calls EXCEPT
            ![1] = EvaluateFetched([calls[1] EXCEPT !.nFetch = @ + 1], o, issue),
            ![2] = EvaluateFetched([calls[2] EXCEPT !.nFetch = @ + 1], o, issue)]
    /\ UNCHANGED <<store, apiKey, history>>

PairCompleted ==
    /\ calls[1].pc = "backend" /\ calls[2].pc = "backend"
    /\ \E o \in BackendOutcomes, completion \in Completions :
        LET got(call) == [call EXCEPT !.nBackend = @ + 1,
                             !.completion = IF o.ok THEN completion ELSE NoCompletion]
        IN calls' = [calls EXCEPT
               ![1] = IF o.ok THEN EvaluateTicketLoadParsed(got(calls[1]), completion)
                      ELSE Fault(got(calls[1]), "backend", o.message,
                                 "Failed to evaluate ticket load"),
               ![2] = IF o.ok THEN EvaluateTicketByKeyParsed(got(calls[2]), completion)
                      ELSE Fault(got(calls[2]), "backend", o.message,
                                 "Failed to evaluate ticket load")]
    /\ UNCHANGED <<store, apiKey, history>>

PairStored ==
    /\ calls[1].pc = "set" /\ calls[2].pc = "set"
    /\ \E o \in StoreOutcomes :
        LET set(call) == [call EXCEPT !.nSet = @ + 1]
        IN IF o.ok
           THEN /\ store' = StorageSet(StorageSet(store, StorageKey(calls[1].key), calls[1].staged),
                                       StorageKey(calls[2].key), calls[2].staged)
                /\ history' = [history EXCEPT ![calls[2].key] = [NoHistory EXCEPT !.op = "evaluate"]]
                /\ calls' = [calls EXCEPT
                       ![1] = Finish(set(calls[1]), EvaluationResponse(set(calls[1]))),
                       ![2] = Finish(set(calls[2]), EvaluationResponse(set(calls[2])))]
           ELSE /\ calls' = [calls EXCEPT
                       ![1] = Fault(set(calls[1]), "store", o.message,
                                    "Failed to evaluate ticket load"),
                       ![2] = Fault(set(calls[2]), "store", o.message,
                                    "Failed to evaluate ticket load")]
                /\ UNCHANGED <<store, history>>
    /\ UNCHANGED apiKey

PairReturned ==
    /\ calls[1].pc = "done" /\ calls[2].pc = "done"
    /\ calls' = [calls EXCEPT ![1] = IdleCall, ![2] = IdleCall]
    /\ UNCHANGED <<store, apiKey, history>>

NextPair == PairInvoked \/ PairFetched \/ PairCompleted \/ PairStored \/ PairReturned

SpecPair == Init /\ [][NextPair]_vars

\* ------------------------------------------------------------- properties

Evaluations == {"evaluateTicketLoad", "evaluateTicketByKey"}
Saves == {"saveTicketScore", "saveCurrentIssueScore"}
Gets == {"getTicketScore", "getCurrentIssueScore"}
BackendResolvers == {"callOpenAI", "analyzeIssueWithAI"} \cup Evaluations

\* The invocation in slot c of one of the resolvers hs has its response.
Done(c, hs) == calls[c].pc = "done" /\ calls[c].h \in hs

\* The backend answered the invocation with a completion.
Answered(call) == call.nBackend = 1 /\ call.completion # NoCompletion

\* The record stored for an issue key, if there is one.
Stored(issueKey) == StorageKey(issueKey) \in DOMAIN store
RecordOf(issueKey) == store[StorageKey(issueKey)]

\* r is the whole number nearest to s (a tie going up) brought into 1..10,
\* both in tenths.
ClampedRound(s, r) ==
    /\ r \in {10 * i : i \in 1..10}
    /\ \/ s - 5 < r /\ r <= s + 5
       \/ r = 10 /\ s < 5
       \/ r = 100 /\ s >= 105

\* C1: every evaluation that returns a score returns and stores a whole
\* number from 1 to 10, the backend's score rounded and clamped.
C1_ScoreRoundedAndClamped ==
    \A c \in Slots :
        Done(c, Evaluations) /\ calls[c].resp.success = "true" =>
            LET s == calls[c].completion.value.score
                r == calls[c].resp.score
            IN /\ r.t = "num"
               /\ 10 <= r.n /\ r.n <= 100
               /\ s.t = "num" => ClampedRound(s.n, r.n)
               /\ Stored(calls[c].key)
               /\ RecordOf(calls[c].key).score = r

\* C2: when the backend's text is no JSON, an evaluation returns success
\* false with the parse error and the raw text, returns no score, and leaves
\* the store as it was when it was invoked.
C2_MalformedResponse ==
    \A c \in Slots :
        Done(c, Evaluations) /\ Answered(calls[c]) /\ ~calls[c].completion.json =>
            /\ calls[c].resp.outcome = "returned"
            /\ calls[c].resp.success = "false"
            /\ calls[c].resp.error = "Failed to parse AI evaluation response"
            /\ calls[c].resp.rawResponse = Str(calls[c].completion.raw)
            /\ calls[c].resp.score = Absent
            /\ calls[c].nSet = 0
            /\ ~calls[c].raced => store = calls[c].storeAtStart

C2_Witness ==
    \E c \in Slots :
        /\ Done(c, Evaluations)
        /\ Answered(calls[c])
        /\ ~calls[c].completion.json
        /\ Stored(calls[c].key)

\* The values JavaScript takes for false in the three keys.
Falsy == {Absent, Null, NaN, Num(0), Str("")}
LacksKey(value) == value.score \in Falsy \/ value.reason \in Falsy \/ ~value.hasBreakdown

\* C3: when the backend's JSON lacks score, reason or breakdown, an
\* evaluation returns success false with the structure error and the parsed
\* object and writes nothing; and the structure error is returned only then.
C3_InvalidEvaluationShape ==
    \A c \in Slots :
        Done(c, Evaluations) =>
            /\ Answered(calls[c]) /\ calls[c].completion.json
                  /\ LacksKey(calls[c].completion.value) =>
                    /\ calls[c].resp.outcome = "returned"
                    /\ calls[c].resp.success = "false"
                    /\ calls[c].resp.error = "Invalid evaluation structure from AI"
                    /\ calls[c].resp.evaluation = calls[c].completion.value
                    /\ calls[c].nSet = 0
                    /\ ~calls[c].raced => store = calls[c].storeAtStart
            /\ calls[c].resp.error = "Invalid evaluation structure from AI" =>
                    /\ Answered(calls[c]) /\ calls[c].completion.json
                    /\ LacksKey(calls[c].completion.value)

C3_Witness ==
    \E c \in Slots :
        /\ Done(c, Evaluations)
        /\ Answered(calls[c])
        /\ calls[c].completion.json
        /\ ~calls[c].completion.value.hasBreakdown
        /\ calls[c].completion.value.score \notin Falsy
        /\ Stored(calls[c].key)

\* The validation errors of a save.
ValidationErrors ==
    {"Issue key is required", "Issue context not found", "Score is required",
     "Score must be a number"}

\* C4: a save whose payload lacks the issue key, lacks the score (or has it
\* null) or has a score that is no number returns success false with a
\* validation error, and the store is as it was, for every key.
C4_InvalidSaveWritesNothing ==
    \A c \in Slots :
        /\ Done(c, Saves)
        /\ calls[c].failed # "request"
        /\ calls[c].key = "" \/ calls[c].score.t # "num"
        => /\ calls[c].resp.outcome = "returned"
           /\ calls[c].resp.success = "false"
           /\ calls[c].resp.error \in ValidationErrors
           /\ calls[c].resp.data = DataAbsent
           /\ calls[c].nSet = 0
           /\ ~calls[c].raced => store = calls[c].storeAtStart

C4_Witness ==
    \E c \in Slots :
        /\ Done(c, Saves)
        /\ calls[c].key # ""
        /\ calls[c].score = Str("high")
        /\ Stored(calls[c].key)

\* C5: when the last operation of the store on k is a successful manual save
\* of score s with metadata m, getTicketScore(k) returns success true and a
\* record with score s, metadata m and issueKey k.
C5_SaveGetRoundTrip ==
    \A c \in Slots :
        /\ Done(c, {"getTicketScore"})
        /\ calls[c].failed = ""
        /\ calls[c].key \in Keys
        /\ history[calls[c].key].op = "save"
        => /\ calls[c].resp.success = "true"
           /\ calls[c].resp.data.t = "rec"
           /\ calls[c].resp.data.rec.score = history[calls[c].key].score
           /\ calls[c].resp.data.rec.metadata = history[calls[c].key].metadata
           /\ calls[c].resp.data.rec.issueKey = calls[c].key

C5_Witness ==
    \E c \in Slots :
        /\ Done(c, {"getTicketScore"})
        /\ calls[c].failed = ""
        /\ calls[c].key \in Keys
        /\ history[calls[c].key].op = "save"
        /\ history[calls[c].key].metadata = CallerMetadata
        /\ \E k \in Keys : k # calls[c].key /\ Stored(k)

\* C6: after any sequence of operations a get of k returns success true and
\* null exactly when no record is stored for k (k was never written, or was
\* deleted since), and success true with the stored record otherwise.
C6_GetAbsentIsNull ==
    \A c \in Slots :
        Done(c, Gets) /\ calls[c].failed = "" /\ calls[c].key \in Keys =>
            LET k == calls[c].key
            IN /\ calls[c].resp.outcome = "returned"
               /\ calls[c].resp.success = "true"
               /\ calls[c].resp.error = ""
               /\ Stored(k) <=> history[k].op \in {"save", "evaluate"}
               /\ ~Stored(k) <=> calls[c].resp.data = DataNull
               /\ Stored(k) => calls[c].resp.data = DataOf(RecordOf(k))

C6_Witness ==
    \E c \in Slots :
        /\ Done(c, Gets)
        /\ calls[c].failed = ""
        /\ calls[c].key \in Keys
        /\ history[calls[c].key].op = "delete"
        /\ calls[c].resp.data = DataNull

\* The elements of an array.
Elements(keys) == {keys[i] : i \in 1..Len(keys)}

\* C7: a batch read that no write or delete overlaps returns success true
\* with a map of exactly the requested keys that have a record, each with
\* its record, and their number as count.
C7_BatchReadsStoredKeys ==
    \A c \in Slots :
        /\ Done(c, {"getMultipleTicketScores"})
        /\ calls[c].isArray
        /\ calls[c].failed = ""
        /\ ~calls[c].raced
        => /\ calls[c].resp.success = "true"
           /\ DOMAIN calls[c].resp.map = {k \in Elements(calls[c].keys) : Stored(k)}
           /\ \A k \in DOMAIN calls[c].resp.map : calls[c].resp.map[k] = RecordOf(k)
           /\ calls[c].resp.count = Cardinality(DOMAIN calls[c].resp.map)

C7_Witness ==
    \E c \in Slots :
        /\ Done(c, {"getMultipleTicketScores"})
        /\ calls[c].failed = ""
        /\ ~calls[c].raced
        /\ calls[c].keys = <<"A-1", "A-2">>
        /\ Stored("A-1")
        /\ ~Stored("A-2")
        /\ calls[c].resp.count = 1
        /\ \E d \in Slots : d # c /\ calls[d].pc = "set"

\* C8: deleteTicketScore(k) returns the same success response whether or not
\* k has a record; afterwards k has none and the other keys are as they were;
\* applied where k has no record it leaves the store as it is.
C8_DeleteIdempotent ==
    \A c \in Slots :
        /\ Done(c, {"deleteTicketScore"})
        /\ calls[c].failed = ""
        /\ calls[c].key \in Keys
        /\ ~calls[c].raced
        =>
            LET sk == StorageKey(calls[c].key)
                before == calls[c].storeAtStart
            IN /\ calls[c].resp = [EmptyResponse EXCEPT !.success = "true"]
               /\ ~Stored(calls[c].key)
               /\ DOMAIN store = DOMAIN before \ {sk}
               /\ \A x \in DOMAIN store : store[x] = before[x]
               /\ sk \notin DOMAIN before => store = before

C8_Witness ==
    \E c \in Slots :
        /\ Done(c, {"deleteTicketScore"})
        /\ calls[c].failed = ""
        /\ calls[c].key \in Keys
        /\ history[calls[c].key].op = "delete"
        /\ StorageKey(calls[c].key) \notin DOMAIN calls[c].storeAtStart
        /\ store # EmptyStore

\* C9: whatever fails inside a resolver (the request, the issue fetch, the
\* backend, the store), the resolver returns a value with success false and
\* an error; it throws nothing.
C9_EveryFailureCaught ==
    \A c \in Slots :
        calls[c].pc = "done" /\ calls[c].failed # "" =>
            /\ calls[c].resp.outcome = "returned"
            /\ calls[c].resp.success = "false"
            /\ calls[c].resp.error # ""

\* C10 as stated: without an API key every resolver that needs the backend
\* returns "API key not configured", whatever else is wrong, calls no backend
\* and writes nothing.
C10_AlwaysKeyError ==
    \A c \in Slots :
        Done(c, BackendResolvers) /\ apiKey = "" =>
            /\ calls[c].resp.error = "API key not configured"
            /\ calls[c].nBackend = 0
            /\ calls[c].nSet = 0

\* C10, amended: without an API key a resolver that needs the backend calls
\* no backend and writes nothing; it returns "API key not configured"
\* whenever it comes to look the key up: callOpenAI always, the other three
\* when the request names the issue and the issue fetch succeeds.
C10_KeyErrorWhenReached ==
    \A c \in Slots :
        Done(c, BackendResolvers) /\ apiKey = "" =>
            /\ calls[c].nBackend = 0
            /\ calls[c].nSet = 0
            /\ ~calls[c].raced => store = calls[c].storeAtStart
            /\ calls[c].resp.outcome = "returned"
            /\ calls[c].resp.error # ""
            /\ calls[c].h = "callOpenAI" \/ (calls[c].failed = "" /\ calls[c].key # "")
                  => calls[c].resp.error = "API key not configured"

C10_Witness ==
    \E c \in Slots :
        /\ Done(c, Evaluations)
        /\ apiKey = ""
        /\ calls[c].nFetch = 1
        /\ calls[c].failed = ""
        /\ calls[c].resp.error = "API key not configured"

\* The resolvers that write a record.
Writers == Saves \cup Evaluations

\* C11: under every interleaving of saves and evaluations of one issue, each
\* change of the record stored for a key is made by one invocation completing
\* its storage.set for that key, and puts there, whole, the record that
\* invocation staged; no step removes a record.
C11_LastWriteWins ==
    [][\A k \in Keys :
          LET sk == StorageKey(k)
          IN /\ sk \in DOMAIN store => sk \in DOMAIN store'
             /\ sk \in DOMAIN store' /\ (sk \in DOMAIN store => store'[sk] # store[sk]) =>
                    \E c \in Slots :
                        /\ calls[c].h \in Writers
                        /\ calls[c].pc = "set"
                        /\ calls[c].key = k
                        /\ calls'[c].pc = "done"
                        /\ calls'[c].resp.success = "true"
                        /\ store'[sk] = calls[c].staged]_vars

\* A save and an evaluation of one issue overlapped and both wrote: the one
\* that wrote last has its response, the record is the one it staged.
C11_Witness ==
    \E c \in Slots :
        /\ Done(c, Evaluations)
        /\ calls[c].raced
        /\ calls[c].resp.success = "true"
        /\ history[calls[c].key].op = "evaluate"
        /\ RecordOf(calls[c].key) =
               ScoreData(calls[c].key, calls[c].resp.score, calls[c].resp.metadata,
                         calls[c].acct)
        /\ \E d \in Slots : d # c /\ calls[d].h \in Saves /\ calls[d].pc = "set"

\* An evaluation that got a completion which is no JSON or lacks a key.
Rejected(call) ==
    Answered(call) /\ (~call.completion.json \/ LacksKey(call.completion.value))

\* C12: an evaluation calls the issue fetch, the backend and storage.set at
\* most once each; a failure of any of them, a completion that is no JSON
\* and one that lacks a key end the invocation there, with success false and
\* no collaborator called after the one that failed.
C12_NoRetries ==
    \A c \in Slots :
        calls[c].h \in Evaluations =>
            /\ calls[c].nFetch <= 1 /\ calls[c].nBackend <= 1 /\ calls[c].nSet <= 1
            /\ calls[c].nBackend <= calls[c].nFetch /\ calls[c].nSet <= calls[c].nBackend
            /\ calls[c].failed # "" \/ Rejected(calls[c]) =>
                    /\ calls[c].pc = "done"
                    /\ calls[c].resp.outcome = "returned"
                    /\ calls[c].resp.success = "false"
            /\ calls[c].failed = "request" => calls[c].nFetch = 0
            /\ calls[c].failed = "fetch" => calls[c].nFetch = 1 /\ calls[c].nBackend = 0
            /\ calls[c].failed = "backend" \/ Rejected(calls[c]) =>
                    calls[c].nBackend = 1 /\ calls[c].nSet = 0
            /\ calls[c].failed = "store" => calls[c].nSet = 1

\* The backend rejected an evaluation of an issue that has a record.
C12_Witness ==
    \E c \in Slots :
        /\ Done(c, Evaluations)
        /\ calls[c].failed = "backend"
        /\ calls[c].completion = NoCompletion
        /\ calls[c].nFetch = 1 /\ calls[c].nBackend = 1 /\ calls[c].nSet = 0
        /\ calls[c].resp.success = "false"
        /\ Stored(calls[c].key)

\* The map of a batch read holds the requested keys that have a record, each
\* with its record.
ExactMap(call) ==
    /\ DOMAIN call.resp.map = {k \in Elements(call.keys) : Stored(k)}
    /\ \A k \in DOMAIN call.resp.map : call.resp.map[k] = RecordOf(k)

\* C13 as stated: a batch read has its response, whichever it is, only when
\* every one of its reads has come back, and a response with success true
\* has the map right.
C13_RespondsAfterAllReads ==
    \A c \in Slots :
        Done(c, {"getMultipleTicketScores"}) /\ calls[c].isArray =>
            /\ calls[c].settled = Len(calls[c].keys)
            /\ calls[c].resp.success = "true" /\ ~calls[c].raced => ExactMap(calls[c])

\* C13, amended: a batch read issues one read for each element of the array;
\* it returns success true only when all of them have come back with an
\* answer, and then (no write overlapping) with the map right; the first read
\* that fails ends it with success false and no map, the other reads still
\* under way or not.
C13_FirstFailureEndsBatch ==
    \A c \in Slots :
        calls[c].h = "getMultipleTicketScores" /\ calls[c].isArray =>
            /\ calls[c].pc = "reads" =>
                    calls[c].settled + Cardinality(calls[c].pending) = Len(calls[c].keys)
            /\ calls[c].pc = "done" =>
                    /\ calls[c].settled <= Len(calls[c].keys)
                    /\ calls[c].resp.outcome = "returned"
                    /\ calls[c].resp.success = "true" <=> calls[c].failed = ""
                    /\ calls[c].resp.success = "true" =>
                            /\ calls[c].settled = Len(calls[c].keys)
                            /\ ~calls[c].raced => ExactMap(calls[c])
                    /\ calls[c].failed = "store" =>
                            /\ calls[c].resp.success = "false"
                            /\ calls[c].resp.error # ""
                            /\ calls[c].resp.map = EmptyMap
                            /\ calls[c].resp.count = -1

\* The first read to come back failed while the read of a key that has a
\* record was still under way.
C13_Witness ==
    \E c \in Slots :
        /\ Done(c, {"getMultipleTicketScores"})
        /\ calls[c].failed = "store"
        /\ calls[c].settled = 1
        /\ Len(calls[c].keys) = 2
        /\ \A k \in Elements(calls[c].keys) : Stored(k)
        /\ calls[c].resp.success = "false"

\* What an evaluation that has its response has made of the store it
\* started from: with success true the record of its response is under its
\* key, else nothing is different.
EffectOf(call) ==
    IF call.resp.success = "true"
    THEN StorageSet(call.storeAtStart, StorageKey(call.key),
                    ScoreData(call.key, call.resp.score, call.resp.metadata, call.acct))
    ELSE call.storeAtStart

\* C14: evaluateTicketByKey with issue key k and evaluateTicketLoad in the
\* context of issue k, given the same issue, API key, backend answer and
\* store answer, are at every step in the same position with the same
\* locals, return the same response, and leave the store each as the other
\* does.
C14_SameAsByKey ==
    /\ [calls[1] EXCEPT !.h = ""] = [calls[2] EXCEPT !.h = ""]
    /\ calls[1].pc # "idle" => calls[1].h = "evaluateTicketLoad" /\ calls[2].h = "evaluateTicketByKey"
    /\ calls[1].pc = "done" =>
            /\ calls[1].resp = calls[2].resp
            /\ store = EffectOf(calls[1])
            /\ store = EffectOf(calls[2])

\* Both have evaluated an issue that had a record and stored a new one.
C14_Witness ==
    /\ calls[1].pc = "done" /\ calls[2].pc = "done"
    /\ calls[1].h = "evaluateTicketLoad" /\ calls[2].h = "evaluateTicketByKey"
    /\ calls[2].resp.success = "true"
    /\ calls[2].resp.score = Num(100)
    /\ StorageKey(calls[2].key) \in DOMAIN calls[2].storeAtStart
    /\ store # calls[2].storeAtStart

\* C15: an evaluation by a lone caller that returns success true has stored,
\* under its issue key, a record with the score and the metadata it returns
\* and the method "ai-4-pillars"; one that returns success false, whatever
\* went wrong, leaves the store as it was for every key.
C15_StoreChangesOnlyOnSuccess ==
    \A c \in Slots :
        Done(c, Evaluations) /\ ~calls[c].raced =>
            /\ calls[c].resp.success \in {"true", "false"}
            /\ calls[c].resp.success = "true" =>
                    /\ calls[c].resp.stored
                    /\ calls[c].nSet = 1
                    /\ Stored(calls[c].key)
                    /\ RecordOf(calls[c].key).score = calls[c].resp.score
                    /\ RecordOf(calls[c].key).metadata = calls[c].resp.metadata
                    /\ RecordOf(calls[c].key).metadata.evaluationMethod = "ai-4-pillars"
                    /\ RecordOf(calls[c].key).issueKey = calls[c].key
                    /\ \A x \in DOMAIN store \ {StorageKey(calls[c].key)} :
                            x \in DOMAIN calls[c].storeAtStart
                            /\ store[x] = calls[c].storeAtStart[x]
            /\ calls[c].resp.success = "false" =>
                    /\ ~calls[c].resp.stored
                    /\ store = calls[c].storeAtStart

\* A re-evaluation of an issue with a manually saved record got as far as
\* storage.set, which failed: the saved record is still there.
C15_Witness ==
    \E c \in Slots :
        /\ Done(c, Evaluations)
        /\ calls[c].failed = "store"
        /\ calls[c].resp.success = "false"
        /\ history[calls[c].key].op = "save"
        /\ Stored(calls[c].key)
        /\ RecordOf(calls[c].key).metadata = CallerMetadata

\* The four pillars: the name in the response and the record, and the name
\* in the backend's breakdown.
Pillars ==
    {<<"ambiguity", "ambiguity">>, <<"technicalComplexity", "technical_complexity">>,
     <<"contextSwitching", "context_switching">>, <<"technicalDebt", "technical_debt">>}

\* The three places a successful evaluation puts its breakdown, and the two
\* it puts the weights.
BreakdownsOf(call) ==
    {call.resp.breakdown, call.resp.metadata.breakdown,
     RecordOf(call.key).metadata.breakdown}
WeightsOf(call) == {call.resp.weights, call.resp.metadata.weights,
                    RecordOf(call.key).metadata.weights}

\* C16 as stated: in a successful evaluation every pillar, in the response
\* and in the stored metadata, is the value the backend gave when it gave
\* one and 0 when it gave none, and the weights are the fixed ones.
C16_PillarAsSuppliedWhenPresent ==
    \A c \in Slots :
        Done(c, Evaluations) /\ calls[c].resp.success = "true" =>
            /\ WeightsOf(calls[c]) = {Weights}
            /\ \A p \in Pillars, b \in BreakdownsOf(calls[c]) :
                    LET v == calls[c].completion.value[p[2]]
                    IN b[p[1]] = IF v # Absent THEN v ELSE Num(0)

\* C16, amended: every pillar is the value the backend gave, unrounded and
\* unclamped, when that value is truthy, and 0 when the backend gave none or
\* gave one that is falsy (null, 0, empty text); the weights are the fixed
\* ones.
C16_PillarOrZero ==
    \A c \in Slots :
        Done(c, Evaluations) /\ calls[c].resp.success = "true" =>
            /\ WeightsOf(calls[c]) = {Weights}
            /\ \A p \in Pillars, b \in BreakdownsOf(calls[c]) :
                    LET v == calls[c].completion.value[p[2]]
                    IN b[p[1]] = IF v \notin Falsy THEN v ELSE Num(0)

\* An evaluation whose backend gave pillars 15, 2.5, null and '' returned
\* and stored 15, 2.5, 0 and 0.
C16_Witness ==
    \E c \in Slots :
        /\ Done(c, Evaluations)
        /\ calls[c].resp.success = "true"
        /\ calls[c].completion.value.ambiguity = Num(150)
        /\ calls[c].completion.value.context_switching = Null
        /\ RecordOf(calls[c].key).metadata.breakdown =
               [ambiguity |-> Num(150), technicalComplexity |-> Num(25),
                contextSwitching |-> Num(0), technicalDebt |-> Num(0)]

\* C17: after any sequence of saves, evaluations and deletes every stored
\* record has a whole score from 1 to 10 and, as issueKey, the issue key it
\* is stored under.
C17_StoredScoresInRange ==
    \A k \in Keys :
        Stored(k) =>
            /\ RecordOf(k).issueKey = k
            /\ RecordOf(k).score \in {Num(10 * i) : i \in 1..10}

====
